---------------------------- MODULE Spec2Model ----------------------------
(***************************************************************************)
(* Model of VastAI_MailBot.py: main, the poll loop (monitor_servers), the  *)
(* per-account diff (process_account), the snapshot file (status.json),    *)
(* the configuration file (config.json) and the shutdown signal.           *)
(*                                                                         *)
(* Data.  Prices are integers (hundredths) and JSON null is the value      *)
(* Null.  The machine list of an API answer is a function from the machine *)
(* ids it holds to their records: an id occurs once in an answer, every    *)
(* machine has an integer id and an integer current_rentals_running.  The  *)
(* configuration is well formed (every account has "api_key" and           *)
(* "machine_ids"), status.json is written by the bot alone, and a write to *)
(* disk succeeds.                                                          *)
(*                                                                         *)
(* Control.  The coroutine runs without interruption between two awaits;   *)
(* the event loop runs handle_shutdown only while the coroutine is         *)
(* suspended in an await.  The balance and the earnings of an account only *)
(* appear in the text of its email, which is not modelled.                 *)
(*                                                                         *)
(* The variables mail, processed, saves, fetches, seen, answered,          *)
(* same_config, started and stopped record what the bot did; the bot does  *)
(* not read them.                                                          *)
(***************************************************************************)
EXTENDS Integers, Sequences, FiniteSets, TLC

\* ------------------------------------------------------------ environment

\* JSON null / missing key in an API answer.
Null == -1

\* The bounds of the value domains of the API answers.
MaxGpus == 2
MaxPrice == 1

\* The machine ids the marketplace knows.
Machines == {1, 2}

\* The "all machines" marker of machine_ids (line 195).
AllMarker == -1

\* EMAIL_TO of the environment (line 35).
EMAIL_TO == "ops"

\* str(server.get("id")) and int(server_id) (lines 198-199).
StrOf(i) == IF i = 1 THEN "1" ELSE IF i = 2 THEN "2" ELSE "3"
IntOf(s) == CHOOSE i \in Machines : StrOf(i) = s

\* A machine as the API shows it while it is listed and idle.
BaseMachine ==
    [listed |-> TRUE, running |-> 0, occupancy |-> [i \in 1..MaxGpus |-> "x"],
     reliability2 |-> 1, earn_hour |-> 0, earn_day |-> 0,
     min_bid_price |-> 0, listed_gpu_cost |-> 0, listed_storage_cost |-> 0,
     listed_min_gpu_count |-> 0, num_reports |-> 0]

\* The machine with n of its GPUs rented on demand.
Rent(n) ==
    [BaseMachine EXCEPT !.running = n,
                        !.occupancy = [i \in 1..MaxGpus |-> IF i <= n THEN "D" ELSE "x"]]

\* The market of one run: the records the API returns for a machine during
\* the run.  Each market moves a machine between two records.
Markets ==
    {{Rent(n - 1), Rent(n)} : n \in 1..MaxGpus}
    \cup {{BaseMachine, [BaseMachine EXCEPT !.listed_gpu_cost = p]} : p \in 1..MaxPrice}
    \cup {{BaseMachine, [BaseMachine EXCEPT ![f] = 1]} :
            f \in {"listed_storage_cost", "min_bid_price", "listed_min_gpu_count",
                    "num_reports"}}
    \cup {{BaseMachine, [BaseMachine EXCEPT !.running = 1]},
          {BaseMachine, [BaseMachine EXCEPT !.reliability2 = 0]},
          {[BaseMachine EXCEPT !.num_reports = Null, !.listed_gpu_cost = 1],
           [BaseMachine EXCEPT !.listed = FALSE, !.running = 1, !.listed_gpu_cost = 1]}}

\* What GET /machines may answer: a failure (HTTP error, timeout, invalid
\* JSON), or a JSON object with the machines of the account.
NoMachines == [i \in {} |-> BaseMachine]
ApiAnswers(samples) ==
    {[ok |-> FALSE, machines |-> NoMachines]}
    \cup {[ok |-> TRUE, machines |-> f] :
            f \in UNION {[S -> samples] : S \in SUBSET Machines}}

\* An account without "notify" falls back to EMAIL_TO (line 184).
Account(n, ids) == [name |-> n, machine_ids |-> ids]
AccountTo(n, ids, rcpt) == [name |-> n, machine_ids |-> ids, notify |-> rcpt]
Configs ==
    { <<Account("a", {1}), AccountTo("b", {2}, <<>>)>>,
      <<AccountTo("b", {AllMarker}, <<>>), AccountTo("a", {1}, <<"x">>)>> }

Names == {"a", "b"}

\* A file of the working directory: missing, or holding JSON data.
Missing == [exists |-> FALSE]
File(d) == [exists |-> TRUE, data |-> d]
ConfigFiles == {Missing} \cup {File(c) : c \in Configs}


\* ------------------------------------------------------------ pure parts

\* "x or 0" on a JSON value (lines 206-223, 239-245).
OrZero(v) == IF v = Null THEN 0 ELSE v

\* gpu_occupancy.count("D") + gpu_occupancy.count("I") (line 220).
CountDI(occ) == Cardinality({i \in DOMAIN occ : occ[i] \in {"D", "I"}})

\* call_vast_api: the JSON object, or {} after any exception (lines 139-151).
call_vast_api(answer) == IF answer.ok THEN answer.machines ELSE NoMachines

\* get_server_status: data.get("machines", []) (lines 156-157).
get_server_status(answer) == call_vast_api(answer)

\* The fields process_account derives from one API machine (lines 202-223)
\* and stores as the machine's snapshot entry (lines 288-300).
Entry(server) ==
    LET listed == server.listed
        running == server.running
    IN  [rented |-> running > 0,
         rented_gpus |-> IF listed THEN CountDI(server.occupancy) ELSE running,
         listed_gpu_cost |-> IF listed THEN OrZero(server.listed_gpu_cost) ELSE 0,
         listed_storage_cost |->
             IF listed THEN OrZero(server.listed_storage_cost) ELSE 0,
         min_bid_price |-> OrZero(server.min_bid_price),
         listed_min_gpu_count |->
             IF listed THEN OrZero(server.listed_min_gpu_count) ELSE 0,
         earn_hour |-> OrZero(server.earn_hour),
         earn_day |-> OrZero(server.earn_day),
         reliability |-> OrZero(server.reliability2),
         num_reports |-> OrZero(server.num_reports),
         gpu_occupancy |-> server.occupancy]

\* The machines of an answer the account monitors (lines 195-200).
Monitored(servers, server_ids) ==
    {i \in DOMAIN servers : AllMarker \in server_ids \/ i \in server_ids}

\* ChangeLines without the comparison of num_reports.
ChangeLines_NoReports(sid, old, new) ==
    LET p_rented == old.rented
        p_rented_gpus == OrZero(old.rented_gpus)
    IN  {[icon |-> IF p_rented_gpus < new.rented_gpus THEN "rocket" ELSE "landing",
          id |-> sid, what |-> "rental"] :
            x \in {1} \cap (IF p_rented # new.rented \/ p_rented_gpus # new.rented_gpus
                            THEN {1} ELSE {})}
        \cup {[icon |-> "warning", id |-> sid, what |-> f] :
                f \in {g \in {"listed_gpu_cost", "listed_storage_cost",
                              "listed_min_gpu_count", "min_bid_price"} :
                         OrZero(old[g]) # new[g]}}

\* The change lines of one machine against its old entry (lines 238-283):
\* the icon of the line and the field it reports.
ChangeLines(sid, old, new) ==
    LET p_rented == old.rented
        p_rented_gpus == OrZero(old.rented_gpus)
    IN  {[icon |-> IF p_rented_gpus < new.rented_gpus THEN "rocket" ELSE "landing",
          id |-> sid, what |-> "rental"] :
            x \in {1} \cap (IF p_rented # new.rented \/ p_rented_gpus # new.rented_gpus
                            THEN {1} ELSE {})}
        \cup {[icon |-> "warning", id |-> sid, what |-> f] :
                f \in {g \in {"listed_gpu_cost", "listed_storage_cost",
                              "listed_min_gpu_count", "min_bid_price", "num_reports"} :
                         OrZero(old[g]) # new[g]}}

\* changes_lines of an account: the lines of its monitored machines that
\* have an entry (lines 237-283).
AllChangeLines(status, servers, ids) ==
    UNION {ChangeLines(StrOf(i), status[StrOf(i)], Entry(servers[i])) :
             i \in {j \in Monitored(servers, ids) : StrOf(j) \in DOMAIN status}}

\* changes_detected (lines 181, 250-286): a change line, or a machine
\* without an entry.
ChangesDetected(status, servers, ids) ==
    \/ AllChangeLines(status, servers, ids) # {}
    \/ \E i \in Monitored(servers, ids) : StrOf(i) \notin DOMAIN status

\* ShouldNotify without changes_detected.
ShouldNotify_FirstOnly(first, changed, account_lines) ==
    first /\ account_lines # {}

\* The condition of the notification (line 306).
ShouldNotify(first, changed, account_lines) ==
    (first \/ changed) /\ account_lines # {}

\* Subject with the tests for the rocket and the landing swapped.
Subject_LandingFirst(first, changed, lines) ==
    IF changed /\ ~first
    THEN IF \E l \in lines : l.icon = "landing" THEN "Rental Ended"
         ELSE IF \E l \in lines : l.icon = "rocket" THEN "New Rental"
         ELSE IF \E l \in lines : l.icon = "warning" THEN "Price Change"
         ELSE "Status Update"
    ELSE "Status Update"

\* The subject of the notification (lines 313-320).
Subject(first, changed, lines) ==
    IF changed /\ ~first
    THEN IF \E l \in lines : l.icon = "rocket" THEN "New Rental"
         ELSE IF \E l \in lines : l.icon = "landing" THEN "Rental Ended"
         ELSE IF \E l \in lines : l.icon = "warning" THEN "Price Change"
         ELSE "Status Update"
    ELSE "Status Update"

\* Updated storing an entry only for a machine that is new or has a change line.
Updated_OnChange(status, servers, ids) ==
    LET new == {StrOf(i) : i \in
                  {j \in Monitored(servers, ids) :
                     \/ StrOf(j) \notin DOMAIN status
                     \/ ChangeLines(StrOf(j), status[StrOf(j)],
                                    Entry(servers[j])) # {}}}
    IN  [s \in DOMAIN status \cup new |->
            IF s \in new THEN Entry(servers[IntOf(s)]) ELSE status[s]]

\* Updated building the snapshot from the machines of the answer alone.
Updated_Rebuild(status, servers, ids) ==
    [s \in {StrOf(i) : i \in Monitored(servers, ids)} |-> Entry(servers[IntOf(s)])]

\* self.previous_status after the loop over the servers (lines 288-300).
Updated(status, servers, ids) ==
    LET new == {StrOf(i) : i \in Monitored(servers, ids)}
    IN  [s \in DOMAIN status \cup new |->
            IF s \in new THEN Entry(servers[IntOf(s)]) ELSE status[s]]

\* send_email: nothing is sent without recipients; an SMTP exception is
\* caught and logged (lines 66-102).
SendOutcomes(recipients) ==
    IF recipients = <<>> THEN {"norecipients"} ELSE {"sent", "error"}

\* recipients of send_email when none are given (line 67).
DefaultRecipients == IF EMAIL_TO = "" THEN <<>> ELSE <<EMAIL_TO>>

\* json.dump / json.load of the snapshot: an object of objects; booleans
\* are written as the literals true and false, numbers and strings as
\* themselves (lines 48, 60).
JsonDump(status) ==
    [s \in DOMAIN status |->
        [f \in DOMAIN status[s] |->
            IF f = "rented" THEN (IF status[s][f] THEN "true" ELSE "false")
            ELSE status[s][f]]]

\* JsonLoad reading the literal "True" instead of "true".
JsonLoad_PyBool(data) ==
    [s \in DOMAIN data |->
        [f \in DOMAIN data[s] |->
            IF f = "rented" THEN data[s][f] = "True" ELSE data[s][f]]]

JsonLoad(data) ==
    [s \in DOMAIN data |->
        [f \in DOMAIN data[s] |->
            IF f = "rented" THEN data[s][f] = "true" ELSE data[s][f]]]

NoStatus == [s \in {} |-> Entry(BaseMachine)]

\* load_json: the parsed file, or {} when the file is missing or is not
\* JSON (lines 45-54).
load_status(file) == IF file.exists THEN JsonLoad(file.data) ELSE NoStatus
load_config(file) == IF file.exists THEN file.data ELSE <<>>

\* save_json (lines 57-60).
save_json(data) == File(JsonDump(data))

\* account_data.get("notify", [EMAIL_TO] if EMAIL_TO else []) (line 184).
NotifyEmails(account_data) ==
    IF "notify" \in DOMAIN account_data THEN account_data.notify
    ELSE DefaultRecipients

NoMail == [called |-> FALSE, subject |-> "", outcome |-> ""]

VARIABLES
    pc,               \* where main / monitor_servers / process_account stands
    shutdown_event,   \* self.shutdown_event
    statusFile,       \* the file status.json
    configFile,       \* the file config.json
    previous_status,  \* self.previous_status
    vast_accounts,    \* self.vast_accounts
    idx,              \* position of the for loop over vast_accounts.items()
    market,           \* the records the API returns in this run
    first_run,        \* process_account: first_run
    servers,          \* process_account: servers
    api_failed,       \* call_vast_api caught an exception on the last GET /machines
    mail,             \* the send_email call of each account in this iteration
    processed,        \* the accounts processed in this iteration, in order
    saves,            \* the writes of status.json in this iteration
    fetches,          \* the GET /machines requests of this iteration
    seen,             \* the API record last stored for a machine in this iteration
    answered,         \* what each account was last answered and monitored, in
                      \* this iteration or, until its turn, in the one before
    same_config,      \* this iteration loaded the configuration of the one before
    started,          \* the number of "started" emails handed to send_email
    stopped           \* the number of "stopped" emails handed to send_email

loopVars == <<previous_status, vast_accounts, idx>>
localVars == <<first_run, servers, api_failed>>
ghostVars == <<mail, processed, saves, fetches, seen, answered, same_config>>
vars == <<pc, shutdown_event, statusFile, configFile, market, loopVars, localVars,
          ghostVars, started, stopped>>

NoSeen == [s \in {} |-> BaseMachine]

\* An account's answer of an iteration: none (not processed), or machines.
NoAnswer == [got |-> FALSE]
Got(machines) == [got |-> TRUE, machines |-> machines]

\* The names of a sequence of accounts.
NamesOf(accounts) == {accounts[i].name : i \in DOMAIN accounts}

Init ==
    /\ pc = "start"
    /\ shutdown_event = FALSE
    /\ statusFile = Missing
    /\ configFile \in ConfigFiles
    /\ previous_status = NoStatus
    /\ vast_accounts = <<>>
    /\ idx = 1
    /\ first_run = FALSE
    /\ market \in Markets
    /\ servers = NoMachines
    /\ api_failed = FALSE
    /\ mail = [n \in Names |-> NoMail]
    /\ processed = <<>>
    /\ saves = 0
    /\ fetches = 0
    /\ seen = NoSeen
    /\ answered = [n \in Names |-> NoAnswer]
    /\ same_config = FALSE
    /\ started = 0
    /\ stopped = 0

\* main: the signal handlers are installed and the "started" email is sent
\* (lines 356-360).
MainStart ==
    /\ pc = "start"
    /\ started' = started + 1
    /\ pc' = "check"
    /\ UNCHANGED <<shutdown_event, statusFile, configFile, market, loopVars, localVars,
                   ghostVars, stopped>>

\* A loop that never looks at the event.
LoopCondition_Always == TRUE

\* while not self.shutdown_event.is_set() (line 329).
LoopCondition == ~shutdown_event

\* self.previous_status and self.vast_accounts as an iteration loads them
\* (lines 331-332).
LoadedStatus == load_status(statusFile)

\* The configuration read once, by the first iteration.
LoadedAccounts_Stale ==
    IF statusFile.exists THEN vast_accounts ELSE load_config(configFile)

LoadedAccounts == load_config(configFile)

\* monitor_servers: the loop condition holds; snapshot and configuration
\* are loaded (lines 329-334).
LoopLoad ==
    /\ pc = "check"
    /\ LoopCondition
    /\ previous_status' = LoadedStatus
    /\ vast_accounts' = LoadedAccounts
    /\ idx' = 1
    /\ mail' = [n \in Names |-> NoMail]
    /\ processed' = <<>>
    /\ saves' = 0
    /\ fetches' = 0
    /\ seen' = NoSeen
    /\ answered' = [n \in Names |->
                       IF n \in NamesOf(vast_accounts) /\ saves > 0
                       THEN answered[n] ELSE NoAnswer]
    /\ same_config' = (saves > 0 /\ vast_accounts' = vast_accounts)
    /\ pc' = IF Len(vast_accounts') = 0 THEN "save" ELSE "account"
    /\ UNCHANGED <<shutdown_event, statusFile, configFile, market, localVars,
                   started, stopped>>

\* monitor_servers: the loop condition fails (line 329).
LoopExit ==
    /\ pc = "check"
    /\ ~LoopCondition
    /\ pc' = "close"
    /\ UNCHANGED <<shutdown_event, statusFile, configFile, market, loopVars, localVars,
                   ghostVars, started, stopped>>

\* process_account up to its first await (lines 175-187).
BeginAccount ==
    /\ pc = "account"
    /\ first_run' = (DOMAIN previous_status = {})
    /\ servers' = NoMachines
    /\ api_failed' = FALSE
    /\ pc' = "user"
    /\ UNCHANGED <<shutdown_event, statusFile, configFile, market, loopVars,
                   ghostVars, started, stopped>>

\* get_current_user answers or fails; both only change the balance shown
\* in the text of the email (lines 187-188).
GetCurrentUser ==
    /\ pc = "user"
    /\ pc' = "earnings"
    /\ UNCHANGED <<shutdown_event, statusFile, configFile, market, loopVars,
                   localVars, ghostVars, started, stopped>>

\* get_user_earnings answers or fails; both only change the earnings shown
\* in the text of the email (lines 190-191).
GetUserEarnings ==
    /\ pc = "earnings"
    /\ pc' = "machines"
    /\ UNCHANGED <<shutdown_event, statusFile, configFile, market, loopVars,
                   localVars, ghostVars, started, stopped>>

\* A failed machine request is sent again.
AfterFetch_Retry(failed) == IF failed THEN "machines" ELSE "diff"

\* Where process_account goes on after the machine request: to the diff,
\* whether the request failed or not (lines 193-197).
AfterFetch(failed) == "diff"

\* get_server_status answers or fails (line 193).
GetServerStatus ==
    /\ pc = "machines"
    /\ \E answer \in ApiAnswers(market) :
          /\ servers' = get_server_status(answer)
          /\ api_failed' = ~answer.ok
          /\ pc' = AfterFetch(~answer.ok)
    /\ fetches' = fetches + 1
    /\ UNCHANGED <<shutdown_event, statusFile, configFile, market, loopVars,
                   first_run, mail, processed, saves, seen, answered,
                   same_config, started, stopped>>

\* The rest of process_account, which runs without an await: the diff, the
\* snapshot entries, the email; then the for loop moves on and the locals
\* are gone (lines 195-324, 334-335).
DiffAndNotify ==
    LET account_data == vast_accounts[idx]
        server_ids == account_data.machine_ids
        account_lines == Monitored(servers, server_ids)
        changes_lines == AllChangeLines(previous_status, servers, server_ids)
        changes_detected == ChangesDetected(previous_status, servers, server_ids)
        new == {StrOf(i) : i \in account_lines}
    IN  /\ pc = "diff"
        /\ previous_status' = Updated(previous_status, servers, server_ids)
        /\ seen' = [s \in DOMAIN seen \cup new |->
                      IF s \in new THEN servers[IntOf(s)] ELSE seen[s]]
        /\ IF ShouldNotify(first_run, changes_detected, account_lines)
           THEN \E o \in SendOutcomes(NotifyEmails(account_data)) :
                  mail' = [mail EXCEPT ![account_data.name] =
                             [called |-> TRUE,
                              subject |-> Subject(first_run, changes_detected,
                                                  changes_lines),
                              outcome |-> o]]
           ELSE mail' = mail
        /\ processed' = Append(processed, account_data.name)
        /\ answered' = [answered EXCEPT ![account_data.name] = Got(servers)]
        /\ idx' = idx + 1
        /\ pc' = IF idx < Len(vast_accounts) THEN "account" ELSE "save"
        /\ first_run' = FALSE
        /\ servers' = NoMachines
        /\ UNCHANGED <<api_failed, shutdown_event, statusFile, configFile, market, vast_accounts,
                       saves, fetches, same_config, started, stopped>>

\* monitor_servers: the snapshot is saved after the for loop (line 337).
SaveStatus ==
    /\ pc = "save"
    /\ statusFile' = save_json(previous_status)
    /\ saves' = saves + 1
    /\ pc' = "wait"
    /\ UNCHANGED <<shutdown_event, configFile, market, loopVars, localVars,
                   mail, processed, fetches, seen, answered, same_config,
                   started, stopped>>

\* wait_for times out after CHECK_INTERVAL seconds (lines 343-347).
WaitTimeout ==
    /\ pc = "wait"
    /\ ~shutdown_event
    /\ pc' = "check"
    /\ UNCHANGED <<shutdown_event, statusFile, configFile, market, loopVars, localVars,
                   ghostVars, started, stopped>>

\* wait_for returns because shutdown_event is set (lines 343-345).
WaitWake ==
    /\ pc = "wait"
    /\ shutdown_event
    /\ pc' = "check"
    /\ UNCHANGED <<shutdown_event, statusFile, configFile, market, loopVars, localVars,
                   ghostVars, started, stopped>>

\* monitor_servers closes the session and main sends the "stopped" email
\* (lines 348-349, 363-364).
MainStop ==
    /\ pc = "close"
    /\ stopped' = stopped + 1
    /\ pc' = "done"
    /\ UNCHANGED <<shutdown_event, statusFile, configFile, market, loopVars, localVars,
                   ghostVars, started>>

\* The places where the coroutine is suspended, so that the event loop can
\* run a signal handler (lines 187, 190, 193, 343).
Suspended == pc \in {"user", "earnings", "machines", "wait"}

\* A handler that also abandons the iteration in progress.
HandleShutdown_Cancel ==
    /\ Suspended
    /\ ~shutdown_event
    /\ shutdown_event' = TRUE
    /\ pc' = "check"
    /\ UNCHANGED <<statusFile, configFile, market, loopVars, localVars,
                   ghostVars, started, stopped>>

\* handle_shutdown, run by the event loop on SIGINT or SIGTERM
\* (lines 351-353, 357-358).
HandleShutdown ==
    /\ Suspended
    /\ ~shutdown_event
    /\ shutdown_event' = TRUE
    /\ UNCHANGED <<pc, statusFile, configFile, market, loopVars, localVars,
                   ghostVars, started, stopped>>

\* The operator edits config.json.  The bot reads the file only at the top
\* of an iteration (line 332), so the edits are placed between two
\* iterations, while the bot waits.
ConfigEdit ==
    /\ pc = "wait"
    /\ \E f \in ConfigFiles \ {configFile} : configFile' = f
    /\ UNCHANGED <<pc, shutdown_event, statusFile, market, loopVars, localVars,
                   ghostVars, started, stopped>>

Next ==
    \/ MainStart
    \/ LoopLoad
    \/ LoopExit
    \/ BeginAccount
    \/ GetCurrentUser
    \/ GetUserEarnings
    \/ GetServerStatus
    \/ DiffAndNotify
    \/ SaveStatus
    \/ WaitTimeout
    \/ WaitWake
    \/ MainStop
    \/ HandleShutdown
    \/ ConfigEdit

Spec == Init /\ [][Next]_vars

\* The steps of the bot itself.  The event loop runs the coroutine whenever
\* it can go on, every API request ends within API_TIMEOUT, and wait_for
\* returns when the event is set.
BotStep ==
    \/ MainStart
    \/ LoopLoad
    \/ LoopExit
    \/ BeginAccount
    \/ GetCurrentUser
    \/ GetUserEarnings
    \/ GetServerStatus
    \/ DiffAndNotify
    \/ SaveStatus
    \/ WaitWake
    \/ MainStop

\* The bot started on the rental market alone.
RentalInit ==
    /\ Init
    /\ market = {Rent(0), Rent(1)}

\* The bot on the rental market, with the scheduling of its steps.
FairSpec == RentalInit /\ [][Next]_vars /\ WF_vars(BotStep)

\* ------------------------------------------------------------ properties

\* The account process_account works on, and its name.
Current == vast_accounts[idx]
Name == Current.name

\* The step that runs the diff, the snapshot update and the email.
DiffStep == pc = "diff" /\ pc' # "diff"

\* The step that starts an iteration.
LoadStep == pc = "check" /\ pc' \in {"account", "save"}

\* The machines of the answer that the current account monitors.
Watched ==
    {i \in DOMAIN servers :
        AllMarker \in Current.machine_ids \/ i \in Current.machine_ids}

\* The fields of an entry whose change is reported.
DiffFields ==
    {"rented", "rented_gpus", "listed_gpu_cost", "listed_storage_cost",
     "min_bid_price", "listed_min_gpu_count", "num_reports"}

\* A watched machine that has no entry in the in-memory snapshot.
HasNewMachine == \E i \in Watched : StrOf(i) \notin DOMAIN previous_status

\* A watched machine whose entry in the in-memory snapshot differs in one
\* of the fields F from the values derived from the answer.
HasChangedMachine(F) ==
    \E i \in Watched :
        /\ StrOf(i) \in DOMAIN previous_status
        /\ \E f \in F : previous_status[StrOf(i)][f] # Entry(servers[i])[f]

\* The snapshot this iteration loaded was empty (status.json is written
\* only at the end of an iteration).
LoadedEmpty == DOMAIN load_status(statusFile) = {}

\* C1 as stated: whenever something changed for the account, or the
\* iteration loaded an empty snapshot, process_account calls send_email.
C1_AsStated ==
    [][DiffStep =>
         ((HasNewMachine \/ HasChangedMachine(DiffFields) \/ LoadedEmpty)
            => mail'[Name].called)]_vars

\* C1 (amended): process_account calls send_email whenever a watched
\* machine of the answer is new or differs from its entry in the in-memory
\* snapshot, and, when the in-memory snapshot is empty as the account starts
\* (first_run), whenever the answer holds a watched machine at all.
C1_Notify ==
    [][DiffStep =>
         ((HasNewMachine \/ HasChangedMachine(DiffFields)
             \/ (first_run /\ Watched # {}))
            => mail'[Name].called)]_vars

\* An email went out in the first iteration, before status.json exists.
C1_Witness ==
    /\ ~statusFile.exists
    /\ \E n \in Names : mail[n].called /\ mail[n].subject = "Status Update"

\* C2 as stated: a watched machine with an entry that differs in rental
\* status, pricing, reliability or report count makes the account's email go out.
C2_AsStated ==
    [][DiffStep =>
         (HasChangedMachine({"rented", "rented_gpus", "listed_gpu_cost",
                             "listed_storage_cost", "min_bid_price",
                             "reliability", "num_reports"})
            => mail'[Name].called)]_vars

\* C2 (amended): a watched machine whose in-memory entry differs from the
\* values derived from the answer in rental status, pricing or report count
\* makes the account's email go out; a change of reliability alone does not.
C2_Detect ==
    [][DiffStep =>
         (HasChangedMachine({"rented", "rented_gpus", "listed_gpu_cost",
                             "listed_storage_cost", "min_bid_price",
                             "num_reports"})
            => mail'[Name].called)]_vars

\* An email reporting a change of price, minimum or report count went out.
C2_Witness ==
    \E n \in Names : mail[n].called /\ mail[n].subject = "Price Change"

\* The machines an account can write entries for.
Reach(account) ==
    IF AllMarker \in account.machine_ids THEN Machines
    ELSE account.machine_ids \cap Machines

\* No other account of the loaded configuration reaches a machine of the
\* current account.
Unshared ==
    \A j \in DOMAIN vast_accounts :
        j # idx => Reach(vast_accounts[j]) \cap Reach(Current) = {}

\* The current account was answered in the iteration before, with the same
\* machines as now.
SameAnswer == answered[Name].got /\ answered[Name].machines = servers

\* An email goes out only for a new or changed watched machine.
OnlyOnChange ==
    DiffStep /\ mail'[Name].called
        => HasNewMachine \/ HasChangedMachine(DiffFields)

ExpectedSubject ==
    LET Old(i) == previous_status[StrOf(i)]
        New(i) == Entry(servers[i])
        Known == {i \in Watched : StrOf(i) \in DOMAIN previous_status}
    IN  IF first_run THEN "Status Update"
        ELSE IF \E i \in Known : Old(i).rented_gpus < New(i).rented_gpus
             THEN "New Rental"
        ELSE IF \E i \in Known : \/ Old(i).rented # New(i).rented
                                 \/ Old(i).rented_gpus # New(i).rented_gpus
             THEN "Rental Ended"
        ELSE IF \E i \in Known :
                  \E f \in {"listed_gpu_cost", "listed_storage_cost",
                            "min_bid_price", "listed_min_gpu_count",
                            "num_reports"} : Old(i)[f] # New(i)[f]
             THEN "Price Change"
        ELSE "Status Update"

\* C10: the subject of an account's email follows the priority New Rental,
\* Rental Ended, Price Change, Status Update over the change lines of the
\* account, and is Status Update on the first run, that is when the
\* in-memory snapshot is empty as the account starts (first_run, line 175).
C10_Subject ==
    [][DiffStep /\ mail'[Name].called
         => mail'[Name].subject = ExpectedSubject]_vars

\* An email with the subject Rental Ended went out.
C10_Witness ==
    \E n \in Names : mail[n].called /\ mail[n].subject = "Rental Ended"

\* process_account is between its first await and its return.
InAccount == pc \in {"user", "earnings", "machines", "diff"}

\* The names of the loaded accounts, in the order of the for loop.
AccountNames == [i \in DOMAIN vast_accounts |-> vast_accounts[i].name]

\* C3: an iteration starts by loading status.json and config.json as they
\* are on disk, then processes the loaded accounts in order, each once,
\* before it ends; the loaded configuration does not change in between.
C3_Reload ==
    [][/\ LoadStep => /\ previous_status' = load_status(statusFile)
                      /\ vast_accounts' = load_config(configFile)
                      /\ processed' = <<>>
       /\ ~LoadStep => vast_accounts' = vast_accounts
       /\ processed' # processed /\ ~LoadStep
            => /\ Len(processed) < Len(vast_accounts)
               /\ processed' = Append(processed, AccountNames[Len(processed) + 1])
       /\ pc' = "wait" /\ pc # "wait" => processed = AccountNames]_vars

\* An iteration after the first one runs under an edited configuration.
C3_Witness ==
    /\ pc = "account"
    /\ statusFile.exists
    /\ ~same_config
    /\ Len(processed) = 1

C5_Shutdown ==
    /\ [][/\ shutdown_event => shutdown_event' /\ ~LoadStep
          /\ shutdown_event /\ pc = "wait" /\ pc' # pc => pc' = "check"
          /\ shutdown_event /\ pc = "check" /\ pc' # pc => pc' = "close"
          /\ shutdown_event /\ pc' = "wait" /\ pc # "wait"
               => processed = AccountNames /\ saves' = 1
          /\ stopped' # stopped => stopped = 0 /\ stopped' = 1 /\ pc = "close"
          /\ stopped > 0 => statusFile' = statusFile /\ pc' = "done"]_vars
    /\ [](pc = "done" <=> stopped = 1)
    /\ (shutdown_event ~> (pc = "done" /\ stopped = 1))

\* The bot has stopped after a signal, with a snapshot on disk.
C5_Witness ==
    /\ pc = "done"
    /\ shutdown_event
    /\ stopped = 1
    /\ statusFile.exists
    /\ Len(processed) = 2

\* C6: while an account is processed nothing loads or saves the snapshot
\* and no other account starts; the account runs to its end, also after a
\* signal, and the in-memory snapshot changes only in its diff.
C6_Sequential ==
    [][/\ InAccount
            => /\ statusFile' = statusFile
               /\ saves' = saves
               /\ vast_accounts' = vast_accounts
               /\ previous_status' # previous_status => pc = "diff"
               /\ pc' \in {"user", "earnings", "machines", "diff", "account", "save"}
               /\ idx' # idx => DiffStep
       /\ DiffStep => /\ processed' = Append(processed, Name)
                      /\ idx' = idx + 1
       /\ pc' = "user" /\ pc # "user"
            => pc = "account" /\ Len(processed) = idx - 1]_vars

\* After a signal during the first account the second account starts.
C6_Witness ==
    /\ shutdown_event
    /\ pc = "account"
    /\ Len(processed) = 1

\* C7: every account makes one machine request per iteration, failed or
\* not; after a failed request the account has no machines, no email goes
\* out, no entry changes, and the for loop moves on.
C7_NoRetry ==
    [][/\ fetches' # fetches /\ ~LoadStep
            => /\ fetches' = Len(processed) + 1
               /\ pc' = "diff"
       /\ LoadStep => fetches' = 0
       /\ pc' = "check" /\ pc # "check" => pc \in {"start", "wait"}
       /\ DiffStep /\ api_failed
            => /\ servers = NoMachines
               /\ mail' = mail
               /\ previous_status' = previous_status
               /\ fetches' = fetches
               /\ processed' = Append(processed, Name)
               /\ pc' \in {"account", "save"}]_vars

\* The machine request of the last account of an iteration failed while
\* the snapshot held entries, and the iteration ended without its email.
C7_Witness ==
    /\ pc = "wait"
    /\ api_failed
    /\ processed # <<>>
    /\ ~mail[processed[Len(processed)]].called
    /\ DOMAIN load_status(statusFile) # {}

\* The string ids of the watched machines of the answer.
WatchedIds == {StrOf(i) : i \in Watched}

\* C9: the diff of an account writes the entries of the watched machines
\* of its answer and leaves every other entry as it is; no entry is ever
\* deleted, in memory or in status.json.
C9_Frame ==
    [][/\ DiffStep
            => /\ DOMAIN previous_status' = DOMAIN previous_status \cup WatchedIds
               /\ \A s \in DOMAIN previous_status \ WatchedIds :
                     previous_status'[s] = previous_status[s]
       /\ previous_status' # previous_status => DiffStep \/ LoadStep
       /\ statusFile' # statusFile
            => \A s \in DOMAIN load_status(statusFile) :
                  /\ s \in DOMAIN load_status(statusFile')
                  /\ s \notin DOMAIN seen
                       => load_status(statusFile')[s] = load_status(statusFile)[s]]_vars

\* status.json keeps the entry of a machine that this iteration did not store.
C9_Witness ==
    /\ pc = "wait"
    /\ DOMAIN seen # {}
    /\ \E s \in DOMAIN load_status(statusFile) : s \notin DOMAIN seen
=============================================================================
